---- MODULE Spec2Model ----
(***************************************************************************)
(* TypeConversionDict: a dict whose get and pop accessors take a default,  *)
(* a default_factory, a conversion callable (type) and a required flag.    *)
(*                                                                         *)
(* Python values are written as their repr, so that every value is a       *)
(* string of the model: None, True, 1, '42', nan ...  The type of a value  *)
(* and Python's == are computed from the repr by TypeOf and PyEq.          *)
(***************************************************************************)
EXTENDS Integers, FiniteSets, Sequences, TLC

(* ----------------------------- Python values ---------------------------- *)

\* the module-level sentinel: "argument not supplied"
_missing == "_missing"

None == "None"
True == "True"
False == "False"

\* what an outcome record carries in place of a value when the call raised
NoValue == "<raised>"

Keys == {"foo", "bar"}

\* the values the mapping may store
StoredValues == {"None", "1", "'42'", "'blub'", "nan"}

\* literal defaults a caller passes (besides not passing one)
DefaultValues == {"None", "1", "True", "-1", "'blub'", "nan"}

\* default factories a caller passes: df is the side-effecting factory of the tests
Factories == {"df"}

\* conversion callables a caller passes: the builtins int and str
Types == {"int", "str"}

\* the builtin type(): the class of a value
_type(v) ==
    CASE v = "None" -> "NoneType"
      [] v \in {"True", "False"} -> "bool"
      [] v \in {"1", "-1", "42"} -> "int"
      [] v = "nan" -> "float"
      [] OTHER -> "str"

\* the number a numeric value denotes (bool is a subclass of int: True == 1)
NumVal(v) ==
    CASE v = "1" -> 1
      [] v = "True" -> 1
      [] v = "False" -> 0
      [] v = "-1" -> -1
      [] v = "42" -> 42
      [] OTHER -> 0

\* Python's ==: numbers compare by value across int and bool, nan equals
\* nothing (itself included), everything else compares within its own type
PyEq(a, b) ==
    IF a = "nan" \/ b = "nan" THEN FALSE
    ELSE IF _type(a) \in {"int", "bool"} /\ _type(b) \in {"int", "bool"}
         THEN NumVal(a) = NumVal(b)
    ELSE a = b

\* Python's `is`.  None is a singleton; for any other value the two operands
\* are one object exactly when the caller passed the stored object itself
\* as the default (same).
PyIs(a, b, same) == (a = "None" /\ b = "None") \/ (same /\ a = b)

\* int(v): [kind |-> "ok", rv |-> result] or the error class raised
int(v) ==
    CASE v = "None" -> [kind |-> "TypeError", rv |-> NoValue]
      [] v \in {"1", "-1", "42"} -> [kind |-> "ok", rv |-> v]
      [] v = "True" -> [kind |-> "ok", rv |-> "1"]
      [] v = "False" -> [kind |-> "ok", rv |-> "0"]
      [] v = "'42'" -> [kind |-> "ok", rv |-> "42"]
      [] OTHER -> [kind |-> "ValueError", rv |-> NoValue]

\* str(v): never fails
str(v) ==
    CASE v = "None" -> [kind |-> "ok", rv |-> "'None'"]
      [] v = "1" -> [kind |-> "ok", rv |-> "'1'"]
      [] v = "-1" -> [kind |-> "ok", rv |-> "'-1'"]
      [] v = "42" -> [kind |-> "ok", rv |-> "'42'"]
      [] v = "True" -> [kind |-> "ok", rv |-> "'True'"]
      [] v = "False" -> [kind |-> "ok", rv |-> "'False'"]
      [] v = "nan" -> [kind |-> "ok", rv |-> "'nan'"]
      [] OTHER -> [kind |-> "ok", rv |-> v]

\* a conversion callable that mutates the mapping it is used on: forget
\* deletes the key being popped from the mapping and returns str(value)
ReentrantTypes == {"forget"}

\* type(rv) for the conversion callable passed as `type`
Convert(type, rv) == IF type = "int" THEN int(rv) ELSE str(rv)

\* default_factory(): df returns the string 'default'
CallFactory(default_factory) == "'default'"

(* ------------------------- outcomes of one call -------------------------- *)

\* A call's outcome: how it ended (kind: "return" or the exception class),
\* the value returned, the mapping afterwards, the message class of a
\* ValueError (why), how the conversion callable ended (conv), how often the
\* conversion callable and the default_factory were invoked, and whether
\* the call got as far as pop's `del self[key]` (reached_del).
Returned(self, rv) ==
    [kind |-> "return", rv |-> rv, self |-> self, why |-> "",
     conv |-> "not_called", tcalls |-> 0, fcalls |-> 0, reached_del |-> FALSE]

Raised(self, kind, why) ==
    [kind |-> kind, rv |-> NoValue, self |-> self, why |-> why,
     conv |-> "not_called", tcalls |-> 0, fcalls |-> 0, reached_del |-> FALSE]

\* `return default_factory()`: one invocation, its result returned
ReturnedFactory(self, default_factory) ==
    [Returned(self, CallFactory(default_factory)) EXCEPT !.fcalls = 1]

\* an outcome reached after type(rv) was invoked once and ended as c
AfterConversion(r, c) == [r EXCEPT !.conv = c.kind, !.tcalls = 1]

\* the mapping without key: `del self[key]`, a KeyError swallowed
DelItem(self, key) == [k \in DOMAIN self \ {key} |-> self[k]]

\* the mapping as type(rv) leaves it: as it was, unless the callable itself
\* removed the key (the dict mutated between pop's lookup and its delete)
AfterType(type, self, key) ==
    IF type \in ReentrantTypes THEN DelItem(self, key) ELSE self

\* a bypass that forgets the type-and-equality half of the test
DefaultMatchIdentityOnly(rv, default, same) == PyIs(rv, default, same)

\* rv is default or _type(rv) is _type(default) and rv == default
DefaultMatch(rv, default, same) ==
    PyIs(rv, default, same) \/ (_type(rv) = _type(default) /\ PyEq(rv, default))

(* ---------------------------------- get --------------------------------- *)

\* a not-found branch that never looks at required
GetNotFoundIgnoresRequired(self, default, default_factory, required) ==
    IF default = None
    THEN IF default_factory = _missing
         THEN Returned(self, None)
         ELSE ReturnedFactory(self, default_factory)
    ELSE Returned(self, default)

\* a not-found branch that runs the factory before it decides anything
GetNotFoundEagerFactory(self, default, default_factory, required) ==
    LET ran == IF default_factory = _missing THEN 0 ELSE 1
    IN  IF required # True
        THEN IF default = None
             THEN IF default_factory = _missing
                  THEN Returned(self, None)
                  ELSE ReturnedFactory(self, default_factory)
             ELSE [Returned(self, default) EXCEPT !.fcalls = ran]
        ELSE [Raised(self, "KeyError", "") EXCEPT !.fcalls = ran]

\* get, key absent: the except KeyError branch
GetNotFound(self, default, default_factory, required) ==
    IF required # True
    THEN IF default = None
         THEN IF default_factory = _missing
              THEN Returned(self, None)
              ELSE ReturnedFactory(self, default_factory)
         ELSE Returned(self, default)
    ELSE Raised(self, "KeyError", "")

\* get, key present with value None, neither default nor default_factory
GetNoneCheck(self, required) ==
    IF required # True
    THEN Returned(self, None)
    ELSE Raised(self, "ValueError", "required_none")

\* a conversion failure that is always re-raised
GetConvFailedAlwaysRaises(self, default, default_factory, required) ==
    Raised(self, "ValueError", "conversion")

\* get, type(rv) raised ValueError
GetConvFailed(self, default, default_factory, required) ==
    IF required # True
    THEN IF default = None
         THEN IF default_factory = _missing
              THEN Returned(self, None)
              ELSE ReturnedFactory(self, default_factory)
         ELSE Returned(self, default)
    ELSE Raised(self, "ValueError", "conversion")

\* a conversion block that removes the key once the value is converted
GetConvertRemoves(self, rv, default, default_factory, type, required) ==
    IF type # _missing
    THEN LET c == Convert(type, rv)
         IN  CASE c.kind = "ok" ->
                    AfterConversion(
                        Returned([k \in DOMAIN self \ {k2 \in DOMAIN self :
                                      self[k2] = rv} |-> self[k]], c.rv), c)
               [] c.kind = "ValueError" ->
                    AfterConversion(
                        GetConvFailed(self, default, default_factory, required), c)
               [] OTHER -> AfterConversion(Raised(self, c.kind, "conversion"), c)
    ELSE Returned(self, rv)

\* a conversion block whose except clause catches TypeError as well
GetConvertCatchesTypeError(self, rv, default, default_factory, type, required) ==
    IF type # _missing
    THEN LET c == Convert(type, rv)
         IN  CASE c.kind = "ok" -> AfterConversion(Returned(self, c.rv), c)
               [] OTHER ->
                    AfterConversion(
                        GetConvFailed(self, default, default_factory, required), c)
    ELSE Returned(self, rv)

\* get, the `# Type conversion` block and the final return
GetConvert(self, rv, default, default_factory, type, required) ==
    IF type # _missing
    THEN LET c == Convert(type, rv)
         IN  CASE c.kind = "ok" -> AfterConversion(Returned(self, c.rv), c)
               [] c.kind = "ValueError" ->
                    AfterConversion(
                        GetConvFailed(self, default, default_factory, required), c)
               [] OTHER -> AfterConversion(Raised(self, c.kind, "conversion"), c)
    ELSE Returned(self, rv)

\* TypeConversionDict.get with its parameters as the body sees them
\* (default is None and required is False when not passed)
get(self, key, default, same, default_factory, type, required) ==
    IF key \notin DOMAIN self
    THEN GetNotFound(self, default, default_factory, required)
    ELSE LET rv == self[key]
         IN  IF default = None /\ default_factory = _missing /\ rv = None
             THEN GetNoneCheck(self, required)
             ELSE IF default # None /\ DefaultMatch(rv, default, same)
             THEN Returned(self, rv)
             ELSE GetConvert(self, rv, default, default_factory, type, required)

(* ---------------------------------- pop --------------------------------- *)

\* a not-found branch with get's rule: required counts as false when unset
PopNotFoundLikeGet(self, default, default_factory, required) ==
    IF required # True
    THEN IF default = _missing
         THEN IF default_factory = _missing
              THEN Returned(self, None)
              ELSE ReturnedFactory(self, default_factory)
         ELSE Returned(self, default)
    ELSE Raised(self, "KeyError", "")

\* pop, key absent: the except KeyError branch
PopNotFound(self, default, default_factory, required) ==
    IF default = _missing
    THEN IF default_factory = _missing
         THEN IF required = _missing \/ required = True
              THEN Raised(self, "KeyError", "")
              ELSE Returned(self, None)
         ELSE IF required = _missing \/ required # True
              THEN ReturnedFactory(self, default_factory)
              ELSE Raised(self, "KeyError", "")
    ELSE IF required = _missing \/ required # True
         THEN Returned(self, default)
         ELSE Raised(self, "KeyError", "")

\* a None check with get's rule: required counts as false when unset
PopNoneCheckLikeGet(self, required) ==
    IF required # True
    THEN Returned(self, None)
    ELSE Raised(self, "ValueError", "required_none")

\* pop, key present with value None, neither default nor default_factory
PopNoneCheck(self, required) ==
    IF required = _missing \/ required = True
    THEN Raised(self, "ValueError", "required_none")
    ELSE Returned(self, None)

\* a conversion failure handled after the key was already removed
PopConvFailedRemovesKey(self, key, default, default_factory, required) ==
    IF default = _missing
    THEN IF default_factory = _missing
         THEN IF required = _missing \/ required = True
              THEN Raised(DelItem(self, key), "ValueError", "conversion")
              ELSE Returned(DelItem(self, key), None)
         ELSE IF required = _missing \/ required # True
              THEN ReturnedFactory(DelItem(self, key), default_factory)
              ELSE Raised(DelItem(self, key), "ValueError", "conversion")
    ELSE IF required = _missing \/ required # True
         THEN Returned(DelItem(self, key), default)
         ELSE Raised(DelItem(self, key), "ValueError", "conversion")

\* pop, type(rv) raised ValueError: the key is not removed
PopConvFailed(self, key, default, default_factory, required) ==
    IF default = _missing
    THEN IF default_factory = _missing
         THEN IF required = _missing \/ required = True
              THEN Raised(self, "ValueError", "conversion")
              ELSE Returned(self, None)
         ELSE IF required = _missing \/ required # True
              THEN ReturnedFactory(self, default_factory)
              ELSE Raised(self, "ValueError", "conversion")
    ELSE IF required = _missing \/ required # True
         THEN Returned(self, default)
         ELSE Raised(self, "ValueError", "conversion")

\* a last step that lets the KeyError of `del self[key]` escape
PopRemoveRaises(self, key, rv) ==
    IF key \in DOMAIN self
    THEN [Returned(DelItem(self, key), rv) EXCEPT !.reached_del = TRUE]
    ELSE [Raised(self, "KeyError", "") EXCEPT !.reached_del = TRUE]

\* a last step that empties the mapping
PopRemoveClears(self, key, rv) ==
    [Returned([k \in {} |-> None], rv) EXCEPT !.reached_del = TRUE]

\* pop, the last step: del self[key] (a KeyError swallowed), return rv
PopRemove(self, key, rv) ==
    [Returned(DelItem(self, key), rv) EXCEPT !.reached_del = TRUE]

\* a conversion block that runs after the key was removed
PopConvertRemovesFirst(self, key, rv, default, default_factory, type, required, skip) ==
    IF type # _missing /\ ~skip
    THEN LET c == Convert(type, rv)
             now == DelItem(self, key)
         IN  CASE c.kind = "ok" -> AfterConversion(PopRemove(now, key, c.rv), c)
               [] c.kind = "ValueError" ->
                    AfterConversion(
                        PopConvFailed(now, key, default, default_factory, required), c)
               [] OTHER -> AfterConversion(Raised(now, c.kind, "conversion"), c)
    ELSE PopRemove(self, key, rv)

\* pop, the conversion block followed by the removal
PopConvert(self, key, rv, default, default_factory, type, required, skip) ==
    IF type # _missing /\ ~skip
    THEN LET c == Convert(type, rv)
             now == AfterType(type, self, key)
         IN  CASE c.kind = "ok" -> AfterConversion(PopRemove(now, key, c.rv), c)
               [] c.kind = "ValueError" ->
                    AfterConversion(
                        PopConvFailed(now, key, default, default_factory, required), c)
               [] OTHER -> AfterConversion(Raised(now, c.kind, "conversion"), c)
    ELSE PopRemove(self, key, rv)

\* TypeConversionDict.pop; every parameter but key may be _missing
pop(self, key, default, same, default_factory, type, required) ==
    IF key \notin DOMAIN self
    THEN PopNotFound(self, default, default_factory, required)
    ELSE LET rv == self[key]
             _skip_type_conversion ==
                 default # _missing /\ DefaultMatch(rv, default, same)
         IN  IF default = _missing /\ default_factory = _missing /\ rv = None
             THEN PopNoneCheck(self, required)
             ELSE PopConvert(self, key, rv, default, default_factory, type,
                             required, _skip_type_conversion)

(* ---------------------------- nested_convert ---------------------------- *)

\* the keys of the nested mappings
NestedKeys == {"a", "b"}

\* the order in which a mapping's items are visited
KeyOrder == <<"a", "b">>

\* An object of the heap: its class, for a mapping the reference held at each
\* key (0: key absent), for a list the references of its elements, for a
\* scalar its value.  A reference is the index of an object in the heap.
Object(cls, kv, el, v) == [cls |-> cls, kv |-> kv, el |-> el, v |-> v]

NoItems == [k \in NestedKeys |-> 0]

\* the scalar leaves: the string '1' and the int 1
Scalars == {Object("str", NoItems, << >>, "'1'"), Object("int", NoItems, << >>, "1")}

\* isinstance(d, dict): TypeConversionDict is a subclass of dict
IsDict(obj) == obj.cls \in {"dict", "TypeConversionDict"}

\* isinstance(d, list)
IsList(obj) == obj.cls = "list"

\* a plain dict, as the dict literals of the inputs build
NewDict(kv) == Object("dict", kv, << >>, "")

\* TypeConversionDict(kv) built as a plain dict
PlainDictInstead(kv) == [cls |-> "dict", kv |-> kv, el |-> << >>, v |-> ""]

\* TypeConversionDict(kv)
NewTypeConversionDict(kv) == Object("TypeConversionDict", kv, << >>, "")

\* list(vs)
NewList(vs) == Object("list", NoItems, vs, "")

\* the outcome of nested_convert: the heap afterwards and the reference
\* returned, or the TypeError raised
NestedReturned(heap, rv) == [kind |-> "return", heap |-> heap, rv |-> rv]

NestedRaised(heap) == [kind |-> "TypeError", heap |-> heap, rv |-> 0]

\* an else branch that raises at every depth
LeafAlwaysRaises(heap, d, _depth) == NestedRaised(heap)

\* nested_convert on a value that is neither a dict nor a list
Leaf(heap, d, _depth) ==
    IF _depth = 0 THEN NestedRaised(heap) ELSE NestedReturned(heap, d)

RECURSIVE nested_convert(_, _, _)
RECURSIVE ConvertAll(_, _, _)

\* the generator expressions: nested_convert applied to each of refs in
\* order, on the heap the one before left; 0 stands for no value and stays 0
ConvertAll(heap, refs, _depth) ==
    IF refs = << >>
    THEN [kind |-> "return", heap |-> heap, out |-> << >>]
    ELSE IF Head(refs) = 0
    THEN LET rest == ConvertAll(heap, Tail(refs), _depth)
         IN  [rest EXCEPT !.out = <<0>> \o @]
    ELSE LET first == nested_convert(heap, Head(refs), _depth)
         IN  IF first.kind # "return"
             THEN [kind |-> first.kind, heap |-> first.heap, out |-> << >>]
             ELSE LET rest == ConvertAll(first.heap, Tail(refs), _depth)
                  IN  [rest EXCEPT !.out = <<first.rv>> \o @]

\* a nested_convert that hands back the object it was given
ReturnsInputItself(heap, d, _depth) ==
    IF heap[d].cls \in {"dict", "TypeConversionDict", "list"} \/ _depth # 0
    THEN [kind |-> "return", heap |-> heap, rv |-> d]
    ELSE [kind |-> "TypeError", heap |-> heap, rv |-> 0]

\* nested_convert(d, _depth=...) on a heap: a new TypeConversionDict for a
\* dict, a new list for a list, the converted values in both
nested_convert(heap, d, _depth) ==
    IF IsDict(heap[d])
    THEN LET kv == ConvertAll(heap,
                       [n \in 1..Len(KeyOrder) |-> heap[d].kv[KeyOrder[n]]],
                       _depth + 1)
             new == NewTypeConversionDict(
                        [k \in NestedKeys |->
                            kv.out[CHOOSE n \in 1..Len(KeyOrder) : KeyOrder[n] = k]])
         IN  IF kv.kind # "return"
             THEN NestedRaised(kv.heap)
             ELSE NestedReturned(Append(kv.heap, new), Len(kv.heap) + 1)
    ELSE IF IsList(heap[d])
    THEN LET vs == ConvertAll(heap, heap[d].el, _depth + 1)
         IN  IF vs.kind # "return"
             THEN NestedRaised(vs.heap)
             ELSE NestedReturned(Append(vs.heap, NewList(vs.out)), Len(vs.heap) + 1)
    ELSE Leaf(heap, d, _depth)

\* how many objects a nested structure passed to nested_convert may have
MaxNodes == 5

\* the objects of heap h with every reference moved up by n
Shift(h, n) ==
    [j \in 1..Len(h) |->
        [h[j] EXCEPT !.kv = [k \in NestedKeys |-> IF @[k] = 0 THEN 0 ELSE @[k] + n],
                     !.el = [x \in 1..Len(@) |-> @[x] + n]]]

\* a dict holding ref at key
OneItem(key, ref) == [k \in NestedKeys |-> IF k = key THEN ref ELSE 0]

\* Structures[n]: the heaps that hold one nested structure of n objects (a
\* JSON-like tree of dicts, lists and scalars, or a list holding the same
\* object twice), its root last
Structures[n \in 1..MaxNodes] ==
    IF n = 1
    THEN {<<o>> : o \in Scalars \cup {NewList(<< >>), NewDict(NoItems)}}
    ELSE {Append(h, NewList(<<n - 1>>)) : h \in Structures[n - 1]}
         \cup {Append(h, NewList(<<n - 1, n - 1>>)) : h \in Structures[n - 1]}
         \cup {Append(h, NewDict(OneItem(k, n - 1))) :
                   h \in Structures[n - 1], k \in NestedKeys}
         \cup UNION {
                {Append(h1 \o Shift(h2, m), NewList(<<m, n - 1>>)) :
                     h1 \in Structures[m], h2 \in Structures[n - 1 - m]}
                \cup {Append(h1 \o Shift(h2, m),
                             NewDict([k \in NestedKeys |->
                                 IF k = "a" THEN m ELSE n - 1])) :
                          h1 \in Structures[m], h2 \in Structures[n - 1 - m]}
                : m \in 1..(n - 2)}

(* ----------------------------- state machine ---------------------------- *)

\* how many invocations of the default factory a run may count
MaxFactoryCalls == 2

VARIABLES
    d,      \* the TypeConversionDict: a function from the keys present to values
    last,   \* the accessor call the caller is looking at: arguments and outcome
    prev,   \* the call before it, when last repeats it with the same arguments
    i,      \* the factory's side effect: how often df has run so far
    held,   \* history: per key, the value last inserted and not removed since
    script, \* history: the outcomes of the docstring's calls made so far
    heap,   \* the objects of the nested structures, a reference being an index
    nc      \* the nested_convert call made: argument, heap before, outcome

vars == <<d, last, prev, i, held, script, heap, nc>>

\* what held says of a key never inserted, or removed since
Absent == "<absent>"

EmptyDict == [k \in {} |-> None]

\* every mapping over Keys: TypeConversionDict(), TypeConversionDict(foo='42'), ...
AllDicts == UNION {[S -> StoredValues] : S \in SUBSET Keys}

\* the record of a call: the arguments as the caller passed them (_missing
\* for one not passed), the mapping before the call, and the outcome
Call(op, key, default, same, default_factory, type, required, before, out) ==
    [op |-> op, key |-> key, default |-> default, same |-> same,
     default_factory |-> default_factory, type |-> type,
     required |-> required, before |-> before, out |-> out]

NoCall ==
    Call("none", "", _missing, FALSE, _missing, _missing, _missing,
         EmptyDict, Returned(EmptyDict, NoValue))

\* the caller repeats the call it is looking at, with the same arguments
Repeats(op, key, default, same, default_factory, type, required) ==
    /\ last.op = op
    /\ last.key = key
    /\ last.default = default
    /\ last.same = same
    /\ last.default_factory = default_factory
    /\ last.type = type
    /\ last.required = required

\* the arguments a caller can pass: same says that the default passed is the
\* very object stored at key, which takes the stored value to be that value
ArgsOk(key, default, same) ==
    same => (key \in DOMAIN d /\ default = d[key])

\* the docstrings' mapping: TypeConversionDict(foo='42', bar='blub')
DocDict == [k \in {"foo", "bar"} |-> IF k = "foo" THEN "'42'" ELSE "'blub'"]

\* the docstrings' calls, in order: d.get('foo', type=int),
\* d.get('bar', -1, type=int), d.pop('foo', type=int), d.pop('bar', -1, type=int)
DocCalls ==
    << [op |-> "get", key |-> "foo", default |-> _missing],
       [op |-> "get", key |-> "bar", default |-> "-1"],
       [op |-> "pop", key |-> "foo", default |-> _missing],
       [op |-> "pop", key |-> "bar", default |-> "-1"] >>

\* script after a call: one entry longer when the call is the docstrings'
\* next call (the first one on the docstrings' mapping), empty otherwise
ScriptAfter(op, key, default, same, default_factory, type, required, out) ==
    LET n == Len(script) + 1
    IN  IF /\ n <= Len(DocCalls)
           /\ n = 1 => d = DocDict
           /\ DocCalls[n] = [op |-> op, key |-> key, default |-> default]
           /\ ~same /\ default_factory = _missing /\ type = "int"
           /\ required = _missing
        THEN Append(script, IF out.kind = "return" THEN out.rv ELSE out.kind)
        ELSE << >>

\* held after a pop: the key is no longer held once `del self[key]` is reached
HeldAfterPop(key, out) ==
    IF out.reached_del THEN [held EXCEPT ![key] = Absent] ELSE held

\* the record of a nested_convert call: the reference passed, _depth, the
\* heap before the call, and the outcome
NestedCall(op, ref, _depth, before, out) ==
    [op |-> op, d |-> ref, _depth |-> _depth, before |-> before,
     kind |-> out.kind, rv |-> out.rv]

NoNested == NestedCall("none", 0, 0, << >>, NestedReturned(<< >>, 0))

Init ==
    /\ d \in AllDicts
    /\ last = NoCall
    /\ prev = NoCall
    /\ i = 0
    /\ held = [k \in Keys |-> IF k \in DOMAIN d THEN d[k] ELSE Absent]
    /\ script = << >>
    /\ heap = << >>
    /\ nc = NoNested

\* d[key] = value, between two accessor calls
SetItem(key, value) ==
    /\ last.op = "none"
    /\ d' = [k \in DOMAIN d \cup {key} |-> IF k = key THEN value ELSE d[k]]
    /\ last' = NoCall
    /\ prev' = NoCall
    /\ held' = [held EXCEPT ![key] = value]
    /\ script' = << >>
    /\ UNCHANGED <<i, heap, nc>>

\* the caller is done with the outcome it was looking at
Discard ==
    /\ last.op # "none"
    /\ last' = NoCall
    /\ prev' = NoCall
    /\ UNCHANGED <<d, i, held, script, heap, nc>>

\* d.get(key, default, default_factory=..., type=..., required=...)
Get(key, default, same, default_factory, type, required) ==
    /\ i < MaxFactoryCalls
    /\ ArgsOk(key, default, same)
    /\ \/ last.op = "none"
       \/ Repeats("get", key, default, same, default_factory, type, required)
    /\ LET out == get(d, key,
                      IF default = _missing THEN None ELSE default, same,
                      default_factory, type,
                      IF required = _missing THEN False ELSE required)
       IN  /\ d' = out.self
           /\ last' = Call("get", key, default, same, default_factory, type,
                           required, d, out)
           /\ prev' = last
           /\ i' = i + out.fcalls
           /\ script' = ScriptAfter("get", key, default, same, default_factory,
                                    type, required, out)
           /\ UNCHANGED <<held, heap, nc>>

\* d.pop(key, default, default_factory=..., type=..., required=...)
Pop(key, default, same, default_factory, type, required) ==
    /\ i < MaxFactoryCalls
    /\ ArgsOk(key, default, same)
    /\ \/ last.op = "none"
       \/ Repeats("pop", key, default, same, default_factory, type, required)
    /\ LET out == pop(d, key, default, same, default_factory, type, required)
       IN  /\ d' = out.self
           /\ last' = Call("pop", key, default, same, default_factory, type,
                           required, d, out)
           /\ prev' = last
           /\ i' = i + out.fcalls
           /\ held' = HeldAfterPop(key, out)
           /\ script' = ScriptAfter("pop", key, default, same, default_factory,
                                    type, required, out)
           /\ UNCHANGED <<heap, nc>>

Next ==
    \/ \E key \in Keys, value \in StoredValues : SetItem(key, value)
    \/ Discard
    \/ \E key \in Keys, default \in DefaultValues \cup {_missing},
          same \in BOOLEAN, default_factory \in Factories \cup {_missing},
          type \in Types \cup {_missing}, required \in {_missing, False, True} :
            Get(key, default, same, default_factory, type, required)
    \/ \E key \in Keys, default \in DefaultValues \cup {_missing},
          same \in BOOLEAN, default_factory \in Factories \cup {_missing},
          type \in Types \cup ReentrantTypes \cup {_missing},
          required \in {_missing, False, True} :
            Pop(key, default, same, default_factory, type, required)

Spec == Init /\ [][Next]_vars

\* a nested structure on the heap, no nested_convert call made yet
NestedInit ==
    /\ heap \in UNION {Structures[n] : n \in 1..MaxNodes}
    /\ nc = NoNested
    /\ d = EmptyDict
    /\ last = NoCall
    /\ prev = NoCall
    /\ i = 0
    /\ held = [k \in Keys |-> Absent]
    /\ script = << >>

\* nested_convert(root) or nested_convert(root, _depth=_depth), root being
\* the structure on the heap
NestedConvert(_depth) ==
    /\ nc.op = "none"
    /\ LET out == nested_convert(heap, Len(heap), _depth)
       IN  /\ heap' = out.heap
           /\ nc' = NestedCall("nested_convert", Len(heap), _depth, heap, out)
    /\ UNCHANGED <<d, last, prev, i, held, script>>

NestedNext == \E _depth \in {0, 1} : NestedConvert(_depth)

NestedSpec == NestedInit /\ [][NestedNext]_vars

(* -------------------------------- claims -------------------------------- *)

\* the key of call c was in the mapping when the call was made
Present(c) == c.key \in DOMAIN c.before

\* the value stored at the key of call c when the call was made
Stored(c) == c.before[c.key]

\* call c ended with the conversion callable raising ValueError
ConvFailed(c) == c.out.conv = "ValueError"

\* call c returned value v
Returns(c, v) == c.out.kind = "return" /\ c.out.rv = v

\* C1: a pop of a present key whose conversion raises ValueError leaves the
\* mapping exactly as it was (the key with its original value, every other
\* entry), and the same call made again ends the same way (same fallback
\* returned or same error raised) and again leaves the mapping as it was.
C1_FailedPopIdempotent ==
    /\ (last.op = "pop" /\ Present(last) /\ ConvFailed(last)) =>
           /\ d = last.before
           /\ last.key \in DOMAIN d
           /\ d[last.key] = Stored(last)
    /\ (prev.op = "pop" /\ Present(prev) /\ ConvFailed(prev)) =>
           /\ last.out.kind = prev.out.kind
           /\ last.out.rv = prev.out.rv
           /\ last.out.why = prev.out.why
           /\ ConvFailed(last)
           /\ d = prev.before

C1_Witness ==
    /\ prev.op = "pop" /\ Present(prev) /\ ConvFailed(prev)
    /\ last.op = "pop" /\ ConvFailed(last)
    /\ Returns(last, "-1")
    /\ "bar" \in DOMAIN d

\* C2: whenever pop of a present key returns a value without the conversion
\* callable having failed, the key is no longer in the mapping.
C2_PopRemovesKey ==
    (last.op = "pop" /\ Present(last) /\ last.out.kind = "return"
        /\ ~ConvFailed(last)) =>
        last.key \notin DOMAIN d

\* C3: get of an absent key returns None with nothing else passed, the
\* default when one is passed, the factory's result when a factory is
\* passed, and raises KeyError with required=True whatever else is passed.
C3_GetAbsent ==
    (last.op = "get" /\ ~Present(last)) =>
        /\ (last.required = True) => last.out.kind = "KeyError"
        /\ (last.required # True /\ last.default = _missing
                /\ last.default_factory = _missing) => Returns(last, None)
        /\ (last.required # True /\ last.default # _missing
                /\ last.default_factory = _missing) =>
               Returns(last, last.default)
        /\ (last.required # True /\ last.default = _missing
                /\ last.default_factory # _missing) =>
               /\ Returns(last, CallFactory(last.default_factory))
               /\ last.out.fcalls = 1

C3_Witness ==
    /\ last.op = "get" /\ ~Present(last)
    /\ last.required = True
    /\ last.default = "-1"
    /\ last.default_factory # _missing
    /\ last.type # _missing
    /\ last.out.kind = "KeyError"

\* get(k, type=f) on a present key, nothing else passed but required
GetWithTypeOnly(c) ==
    /\ c.op = "get" /\ Present(c)
    /\ c.type # _missing
    /\ c.default = _missing /\ c.default_factory = _missing

\* what C4 promises of call c when the stored value is v
ConvertsOrFallsBack(c) ==
    LET f == Convert(c.type, Stored(c))
    IN  /\ f.kind = "ok" => Returns(c, f.rv)
        /\ (f.kind = "ValueError" /\ c.required # True) => Returns(c, None)
        /\ (f.kind = "ValueError" /\ c.required = True) =>
               c.out.kind = "ValueError" /\ c.out.why = "conversion"

\* C4 as stated: for every stored value, None included, get(k, type=f)
\* returns f(v) when f succeeds, and when f raises ValueError returns None
\* (not required) or raises it (required).
C4_GetConverts == GetWithTypeOnly(last) => ConvertsOrFallsBack(last)

\* C4 amended: that holds for every stored value other than None; on a
\* stored None f is not invoked, get returns None when required is false
\* or unset and raises the required-None ValueError when required is true.
C4_GetConvertsNonNull ==
    GetWithTypeOnly(last) =>
        IF Stored(last) # None
        THEN ConvertsOrFallsBack(last) /\ last.out.tcalls = 1
        ELSE /\ last.out.tcalls = 0
             /\ last.required # True => Returns(last, None)
             /\ last.required = True =>
                    last.out.kind = "ValueError" /\ last.out.why = "required_none"

C4_Witness ==
    /\ GetWithTypeOnly(last)
    /\ Stored(last) = "'blub'"
    /\ last.type = "int"
    /\ last.required = _missing
    /\ Returns(last, None)
    /\ last.out.tcalls = 1

WithDefaultAndType(c) ==
    /\ c.op \in {"get", "pop"} /\ Present(c)
    /\ c.default # _missing /\ c.type # _missing
    /\ c.default_factory = _missing /\ c.required = _missing

\* call c returned the stored value and never invoked the conversion
Bypassed(c) == Returns(c, Stored(c)) /\ c.out.tcalls = 0

\* C6 as stated: whenever the stored value equals the default (==), get and
\* pop return the stored value unconverted and never invoke f.
C6_BypassOnEqual ==
    (WithDefaultAndType(last) /\ PyEq(Stored(last), last.default)) =>
        Bypassed(last)

\* C6 amended: whenever the stored value is the default object itself, or
\* has the same type as the default and equals it, get and pop return the
\* stored value unconverted and never invoke f.
C6_BypassOnIdentityOrTypedEqual ==
    (WithDefaultAndType(last)
        /\ \/ PyIs(Stored(last), last.default, last.same)
           \/ /\ _type(Stored(last)) = _type(last.default)
              /\ PyEq(Stored(last), last.default)) =>
        Bypassed(last)

C6_Witness ==
    /\ WithDefaultAndType(last)
    /\ last.op = "pop"
    /\ Stored(last) = "'blub'" /\ last.default = "'blub'" /\ ~last.same
    /\ last.type = "int"
    /\ Bypassed(last)
    /\ last.key \notin DOMAIN d

\* call c is one that has nothing to return but the factory's result: a
\* factory and no literal default were passed, required is not true, and the
\* key is absent or the conversion of the stored value raises ValueError
FallsBackToFactory(c) ==
    /\ c.op \in {"get", "pop"}
    /\ c.default_factory # _missing
    /\ c.default = _missing
    /\ c.required # True
    /\ \/ ~Present(c)
       \/ /\ c.type # _missing
          /\ Convert(c.type, Stored(c)).kind = "ValueError"

C8_DefaultWins ==
    (/\ last.op \in {"get", "pop"}
     /\ last.default # _missing /\ last.default_factory # _missing
     /\ last.required # True
     /\ ~Present(last) \/ ConvFailed(last)) =>
        Returns(last, last.default) /\ last.out.fcalls = 0

\* get or pop of a present key whose value is None, no default, no factory
StoredNoneNoDefault(c) ==
    /\ c.op \in {"get", "pop"} /\ Present(c) /\ Stored(c) = None
    /\ c.default = _missing /\ c.default_factory = _missing

\* call c raised the ValueError that says the required key is None
RaisedRequiredNone(c) ==
    c.out.kind = "ValueError" /\ c.out.why = "required_none"

\* C9: on a present key whose value is None, with no default and no factory,
\* get raises the required-None ValueError (not KeyError) when required is
\* true and returns None otherwise; pop does the same except that an unset
\* required counts as true; the conversion callable is never invoked.
C9_RequiredNone ==
    StoredNoneNoDefault(last) =>
        /\ last.out.tcalls = 0
        /\ (last.op = "get" /\ last.required = True) => RaisedRequiredNone(last)
        /\ (last.op = "get" /\ last.required # True) => Returns(last, None)
        /\ (last.op = "pop" /\ last.required # False) => RaisedRequiredNone(last)
        /\ (last.op = "pop" /\ last.required = False) => Returns(last, None)

C9_Witness ==
    /\ StoredNoneNoDefault(last)
    /\ last.op = "pop" /\ last.type = "str" /\ last.required = _missing
    /\ RaisedRequiredNone(last)
    /\ last.out.tcalls = 0

\* C10: with required=True a default or default_factory passed to get is
\* ignored: get(k, D, type=f, required=True) ends as get(k, type=f,
\* required=True) does on the same mapping (same value returned or same
\* error raised).
C10_RequiredIgnoresDefault ==
    (/\ last.op = "get" /\ last.required = True /\ last.type # _missing
     /\ last.default # _missing \/ last.default_factory # _missing) =>
        LET plain == get(last.before, last.key, None, FALSE, _missing,
                         last.type, True)
        IN  /\ last.out.kind = plain.kind
            /\ last.out.rv = plain.rv
            /\ last.out.why = plain.why

\* C11: get is read-only: whatever the arguments and however the call ends
\* (value, fallback or error), the mapping has the same keys and the same
\* value at each key after the call as before it.
C11_GetReadOnly ==
    (last.op = "get") =>
        /\ DOMAIN d = DOMAIN last.before
        /\ \A k \in DOMAIN d : d[k] = last.before[k]

C11_Witness ==
    /\ last.op = "get" /\ Present(last)
    /\ last.type = "int" /\ last.out.conv = "ok"
    /\ Returns(last, "42")
    /\ d = last.before
    /\ prev.op = "get"

\* C12: when the conversion of a present key's value raises ValueError, get
\* re-raises if required is true; otherwise it returns the literal default
\* if one was passed, else the factory's result if a factory was passed,
\* else None; the default is returned as it is.
C12_GetConversionFallback ==
    (last.op = "get" /\ Present(last) /\ ConvFailed(last)) =>
        /\ last.out.tcalls = 1
        /\ (last.required = True) =>
               last.out.kind = "ValueError" /\ last.out.why = "conversion"
        /\ (last.required # True /\ last.default # _missing) =>
               Returns(last, last.default)
        /\ (last.required # True /\ last.default = _missing
                /\ last.default_factory # _missing) =>
               Returns(last, CallFactory(last.default_factory))
        /\ (last.required # True /\ last.default = _missing
                /\ last.default_factory = _missing) => Returns(last, None)

\* C13: when the conversion callable raises an error that is not a
\* ValueError, get and pop raise that error whatever default, default_factory
\* and required are; the factory is not invoked, nothing is returned, and the
\* mapping (the popped key included) is as it was.
C13_OtherErrorsPropagate ==
    (last.op \in {"get", "pop"} /\ last.out.conv = "TypeError") =>
        /\ last.out.kind = "TypeError"
        /\ last.out.rv = NoValue
        /\ last.out.fcalls = 0
        /\ d = last.before

C13_Witness ==
    /\ last.op = "get" /\ Present(last) /\ Stored(last) = None
    /\ last.type = "int"
    /\ last.default = "-1" /\ last.default_factory # _missing
    /\ last.required = False
    /\ last.out.kind = "TypeError"

\* what get returns or raises on the mapping and with the arguments of call c
GetOutcomeFor(c) ==
    get(c.before, c.key, IF c.default = _missing THEN None ELSE c.default,
        c.same, c.default_factory, c.type, c.required)

\* C14: with required passed explicitly, pop returns the same value or raises
\* the same kind of error as get with the same arguments on the same
\* mapping, for every default (None passed explicitly included).
C14_PopLikeGet ==
    (last.op = "pop" /\ last.required # _missing) =>
        /\ last.out.kind = GetOutcomeFor(last).kind
        /\ last.out.rv = GetOutcomeFor(last).rv
        /\ last.out.why = GetOutcomeFor(last).why

\* pop and get agree whenever the default is not an explicit None: no other
\* difference between the two resolution policies is reachable
C14_PopLikeGetButNoneDefault ==
    (last.op = "pop" /\ last.required # _missing /\ last.default # None) =>
        /\ last.out.kind = GetOutcomeFor(last).kind
        /\ last.out.rv = GetOutcomeFor(last).rv
        /\ last.out.why = GetOutcomeFor(last).why

\* the conversion callable of pop call c removed the key from the mapping
\* between pop's lookup and its `del self[key]`
KeyVanished(c) ==
    /\ c.op = "pop" /\ Present(c)
    /\ c.type \in ReentrantTypes /\ c.out.tcalls = 1

\* C17: when the key is present at pop's lookup and is removed from the
\* mapping before pop's removal step, pop raises no KeyError, returns the
\* value it resolved (converted) and the key is absent afterwards; and the
\* removal is pop's last step: a pop that did not get to it (it raised, or
\* the conversion failed) leaves the key in place.
C17_PopToleratesVanishedKey ==
    /\ KeyVanished(last) =>
           /\ Returns(last, Convert(last.type, Stored(last)).rv)
           /\ last.out.reached_del
           /\ last.key \notin DOMAIN d
    /\ (last.op = "pop" /\ Present(last) /\ ~last.out.reached_del) =>
           /\ last.key \in DOMAIN d
           /\ d[last.key] = Stored(last)
    /\ (last.op = "pop" /\ last.out.reached_del) =>
           /\ last.out.kind = "return"
           /\ last.out.conv \in {"not_called", "ok"}

C17_Witness ==
    /\ KeyVanished(last)
    /\ Stored(last) = "1"
    /\ Returns(last, "'1'")
    /\ last.key \notin DOMAIN d
    /\ last.out.reached_del

\* the step is a call of accessor op on key with no default and no factory
CallsPlainly(op, key) ==
    /\ last'.op = op /\ last'.key = key
    /\ last'.default = _missing /\ last'.default_factory = _missing

\* C18, the membership rule: the keys of the mapping are exactly the keys
\* held (initially present or inserted, and no pop of the key since its last
\* insertion reached the removal step), each with the value last inserted.
C18_MembershipRule ==
    /\ DOMAIN d = {k \in Keys : held[k] # Absent}
    /\ \A k \in DOMAIN d : d[k] = held[k]

\* C18, the calls that follow: on a key not held, pop with no default raises
\* KeyError and get returns None; on a key held (so after a pop that fell
\* back because the conversion failed, too) get returns the value held; after
\* an insertion pop resolves against the inserted value.
C18_FollowingCalls ==
    \A k \in Keys :
        /\ (held[k] = Absent /\ CallsPlainly("pop", k)
                /\ last'.required # False) => last'.out.kind = "KeyError"
        /\ (held[k] = Absent /\ CallsPlainly("get", k)
                /\ last'.required # True) => Returns(last', None)
        /\ (held[k] # Absent /\ CallsPlainly("get", k)
                /\ last'.type = _missing /\ last'.required # True) =>
               Returns(last', held[k])
        /\ (held[k] \notin {Absent, None} /\ CallsPlainly("pop", k)
                /\ last'.type = _missing) =>
               Returns(last', held[k]) /\ held'[k] = Absent

C19_DocstringExample ==
    /\ Len(script) >= 1 => script[1] = "42"
    /\ Len(script) >= 2 => script[2] = "-1"
    /\ Len(script) >= 3 => script[3] = "42" /\ "foo" \notin DOMAIN d
    /\ Len(script) >= 4 =>
           /\ script[4] = "-1"
           /\ d = [k \in {"bar"} |-> "'blub'"]

C19_Witness ==
    /\ Len(script) = 4
    /\ last.op = "pop" /\ last.key = "bar"
    /\ Returns(last, "-1")

\* C20: pop changes at most the entry of the key asked for: every entry at
\* another key is as it was, no key is inserted, no stored value changes,
\* and the mapping is unchanged when the key was absent or the call raises.
C20_PopFrame ==
    (last.op = "pop") =>
        /\ \A k \in Keys \ {last.key} :
               /\ k \in DOMAIN d <=> k \in DOMAIN last.before
               /\ k \in DOMAIN d => d[k] = last.before[k]
        /\ DOMAIN d \subseteq DOMAIN last.before
        /\ \A k \in DOMAIN d : d[k] = last.before[k]
        /\ (~Present(last) \/ last.out.kind # "return") => d = last.before

C20_Witness ==
    /\ last.op = "pop" /\ last.key = "foo" /\ Present(last)
    /\ last.out.reached_del
    /\ "foo" \notin DOMAIN d
    /\ "bar" \in DOMAIN d /\ d["bar"] = "None"

\* the nested_convert call made returned
NestedReturns == nc.op = "nested_convert" /\ nc.kind = "return"

\* the value passed is neither a mapping nor a sequence
LeafPassed == ~IsDict(nc.before[nc.d]) /\ ~IsList(nc.before[nc.d])

RECURSIVE IsConverted(_, _, _, _)

\* y on heap h2 is x of heap h converted: a TypeConversionDict with the same
\* keys and converted values for a mapping, a list of the converted elements
\* in the same order for a list, the same value for a scalar
IsConverted(h, x, h2, y) ==
    IF IsDict(h[x])
    THEN /\ h2[y].cls = "TypeConversionDict"
         /\ \A k \in NestedKeys :
                /\ h2[y].kv[k] = 0 <=> h[x].kv[k] = 0
                /\ h[x].kv[k] # 0 => IsConverted(h, h[x].kv[k], h2, h2[y].kv[k])
    ELSE IF IsList(h[x])
    THEN /\ h2[y].cls = "list"
         /\ Len(h2[y].el) = Len(h[x].el)
         /\ \A n \in 1..Len(h[x].el) : IsConverted(h, h[x].el[n], h2, h2[y].el[n])
    ELSE h2[y] = h[x]

\* C15: nested_convert returns a structure in which every mapping of the
\* input, at every depth and inside every list, is a TypeConversionDict with
\* the same keys, every list is a list of the converted elements in the same
\* order, and every scalar leaf is the same value as in the input.
C15_NestedConverted ==
    NestedReturns => IsConverted(nc.before, nc.d, heap, nc.rv)

\* nested_convert({"a": {"b": [{"a": "1"}]}}): the three mappings come back
\* as TypeConversionDicts, the list as a list, the scalar '1' as it was
C15_Witness ==
    /\ NestedReturns /\ nc._depth = 0 /\ nc.d = 5
    /\ nc.before[5] = NewDict(OneItem("a", 4))
    /\ nc.before[4] = NewDict(OneItem("b", 3))
    /\ nc.before[3] = NewList(<<2>>)
    /\ nc.before[2] = NewDict(OneItem("a", 1))
    /\ nc.before[1].v = "'1'"
    /\ LET top == heap[nc.rv]
           a == heap[top.kv["a"]]
           b == heap[a.kv["b"]]
           e == heap[b.el[1]]
       IN  /\ top.cls = "TypeConversionDict" /\ a.cls = "TypeConversionDict"
           /\ b.cls = "list" /\ e.cls = "TypeConversionDict"
           /\ heap[e.kv["a"]].v = "'1'"

\* C16: nested_convert on a value that is neither a mapping nor a list raises
\* TypeError when it is the top-level input (_depth 0) and returns the value
\* itself at _depth > 0; TypeError is raised in no other case, so a scalar
\* nested inside a mapping or a list never makes the call fail.
C16_TypeErrorOnlyAtTop ==
    (nc.op = "nested_convert") =>
        /\ (LeafPassed /\ nc._depth = 0) => nc.kind = "TypeError"
        /\ (LeafPassed /\ nc._depth > 0) =>
               /\ nc.kind = "return"
               /\ nc.rv = nc.d
               /\ heap = nc.before
        /\ ~LeafPassed => nc.kind = "return"

\* nested_convert('1') raised TypeError
C16_Witness ==
    /\ nc.op = "nested_convert" /\ nc._depth = 0
    /\ LeafPassed /\ nc.before[nc.d].v = "'1'"
    /\ nc.kind = "TypeError"

\* nested_convert(['1', {"a": 1}]) returned, its scalars nested at depth 1
\* and 2
C16_NestedScalars ==
    /\ NestedReturns /\ nc._depth = 0
    /\ IsList(nc.before[nc.d]) /\ Len(nc.before[nc.d].el) = 2
    /\ nc.before[nc.before[nc.d].el[1]].cls = "str"
    /\ IsDict(nc.before[nc.before[nc.d].el[2]])
    /\ nc.before[nc.before[nc.d].el[2]].kv["a"] # 0

\* every object of heap h is on heap h2, at the same reference and as it was
Untouched(h, h2) ==
    /\ Len(h2) >= Len(h)
    /\ \A j \in 1..Len(h) : h2[j] = h[j]

RECURSIVE NewlyBuilt(_, _, _)

\* every mapping and list of y on heap h2 is an object that was not among
\* the first n
NewlyBuilt(h2, y, n) ==
    IF IsDict(h2[y])
    THEN /\ y > n
         /\ \A k \in NestedKeys : h2[y].kv[k] # 0 => NewlyBuilt(h2, h2[y].kv[k], n)
    ELSE IF IsList(h2[y])
    THEN /\ y > n
         /\ \A j \in 1..Len(h2[y].el) : NewlyBuilt(h2, h2[y].el[j], n)
    ELSE TRUE

RECURSIVE EqualEntries(_, _, _)

\* x == y on heap h, as Python compares: mappings by keys and values
\* whatever their class, lists by length and elements, an entry being equal
\* when it is the same object or an equal one
EqualEntries(h, x, y) ==
    \/ x = y
    \/ /\ IsDict(h[x]) /\ IsDict(h[y])
       /\ \A k \in NestedKeys :
              /\ h[x].kv[k] = 0 <=> h[y].kv[k] = 0
              /\ h[x].kv[k] # 0 => EqualEntries(h, h[x].kv[k], h[y].kv[k])
    \/ /\ IsList(h[x]) /\ IsList(h[y])
       /\ Len(h[x].el) = Len(h[y].el)
       /\ \A j \in 1..Len(h[x].el) : EqualEntries(h, h[x].el[j], h[y].el[j])
    \/ /\ ~IsDict(h[x]) /\ ~IsList(h[x]) /\ ~IsDict(h[y]) /\ ~IsList(h[y])
       /\ h[x].v = h[y].v

\* C21: nested_convert does not modify its input and shares no container
\* with it: after the call every object of the input is as it was, and on a
\* mapping or a list the call returns, every mapping and list of the result
\* is a newly built object, and the result equals the input entry by entry.
C21_NoSharingNoMutation ==
    (nc.op = "nested_convert") =>
        /\ Untouched(nc.before, heap)
        /\ ~LeafPassed =>
               /\ nc.kind = "return"
               /\ NewlyBuilt(heap, nc.rv, Len(nc.before))
               /\ EqualEntries(heap, nc.d, nc.rv)

\* nested_convert(x) with x = [y, y], y a mapping holding a list: the result
\* is a new list of two new mappings, each with a new list of its own
C21_Witness ==
    /\ NestedReturns /\ nc._depth = 0
    /\ IsList(nc.before[nc.d]) /\ Len(nc.before[nc.d].el) = 2
    /\ nc.before[nc.d].el[1] = nc.before[nc.d].el[2]
    /\ IsDict(nc.before[nc.before[nc.d].el[1]])
    /\ nc.before[nc.before[nc.d].el[1]].kv["a"] # 0
    /\ IsList(nc.before[nc.before[nc.before[nc.d].el[1]].kv["a"]])
    /\ nc.rv > Len(nc.before)
    /\ heap[nc.rv].el[1] # heap[nc.rv].el[2]
    /\ heap[nc.rv].el[1] > Len(nc.before)
    /\ heap[heap[nc.rv].el[1]].kv["a"] # heap[heap[nc.rv].el[2]].kv["a"]
    /\ heap[nc.before[nc.d].el[1]] = nc.before[nc.before[nc.d].el[1]]

====
